---- MODULE Spec2Model ----
(***************************************************************************)
(* ProductsLoader (src/actions/common/ProductsLoader.js): a DataLoader     *)
(* whose batch function starts one __searchProducts per key, each of which *)
(* acquires a token, fetches the spreadsheet and filters its rows.         *)
(***************************************************************************)
EXTENDS Integers, Sequences, FiniteSets, TLC

(***************************************************************************)
(* JavaScript values.  Every value is a record of one shape, so that any   *)
(* two values can be compared:  t is the type tag, s the characters of a   *)
(* string, n the number, f the properties of an object (in insertion       *)
(* order) or the items of an array.                                        *)
(***************************************************************************)
JUndef == [t |-> "undef", s |-> <<>>, n |-> 0, f |-> <<>>]

JNaN == [t |-> "nan", s |-> <<>>, n |-> 0, f |-> <<>>]

JStr(chars) == [t |-> "str", s |-> chars, n |-> 0, f |-> <<>>]

JNum(k) == [t |-> "num", s |-> <<>>, n |-> k, f |-> <<>>]

JObj(props) == [t |-> "obj", s |-> <<>>, n |-> 0, f |-> props]

JArr(items) == [t |-> "arr", s |-> <<>>, n |-> 0, f |-> [i \in 1..Len(items) |-> [k |-> "", v |-> items[i]]]]

P(name, val) == [k |-> name, v |-> val]

\* v.name : the property of an object; undefined on a string or a number.
Get(v, name) ==
    IF v.t = "obj" /\ \E i \in 1..Len(v.f) : v.f[i].k = name
    THEN v.f[CHOOSE i \in 1..Len(v.f) : v.f[i].k = name].v
    ELSE JUndef

\* Reading a property of undefined or null throws a TypeError.
Nullish(v) == v.t \in {"undef", "null"}

\* The truthiness an if or an || tests.
Truthy(v) ==
    CASE v.t = "str" -> v.s # <<>>
      [] v.t = "num" -> v.n # 0
      [] v.t \in {"obj", "arr"} -> TRUE
      [] OTHER -> FALSE

Digit == <<"0", "1", "2", "3", "4", "5", "6", "7", "8", "9">>

RECURSIVE NumStr(_)
NumStr(k) == IF k < 10 THEN <<Digit[k + 1]>> ELSE NumStr(k \div 10) \o <<Digit[(k % 10) + 1]>>

\* String.prototype.includes: needle occurs in hay as a contiguous run.
StrIncludes(hay, needle) ==
    \E i \in 0..(Len(hay) - Len(needle)) :
        \A j \in 1..Len(needle) : hay[i + j] = needle[j]

(***************************************************************************)
(* JSON.stringify(key, null, 0): the characters of the serialization.      *)
(* Properties are written in insertion order, a property whose value is    *)
(* undefined is left out, an undefined array item is written null.         *)
(***************************************************************************)
RECURSIVE Stringify(_)
RECURSIVE StringifyProps(_, _)
RECURSIVE StringifyItems(_, _)
Stringify(v) ==
    CASE v.t = "str" -> <<"\"">> \o v.s \o <<"\"">>
      [] v.t = "num" -> NumStr(v.n)
      [] v.t = "obj" -> <<"{">> \o StringifyProps(v.f, TRUE) \o <<"}">>
      [] v.t = "arr" -> <<"[">> \o StringifyItems(v.f, TRUE) \o <<"]">>
      [] OTHER -> <<"null">>

StringifyProps(props, first) ==
    IF props = <<>> THEN <<>>
    ELSE IF Head(props).v.t = "undef" THEN StringifyProps(Tail(props), first)
    ELSE (IF first THEN <<>> ELSE <<",">>)
         \o <<"\"", Head(props).k, "\"", ":">> \o Stringify(Head(props).v)
         \o StringifyProps(Tail(props), FALSE)

StringifyItems(items, first) ==
    IF items = <<>> THEN <<>>
    ELSE (IF first THEN <<>> ELSE <<",">>)
         \o Stringify(Head(items).v)
         \o StringifyItems(Tail(items), FALSE)

\* A cache key made of the search term alone.
cacheKeyFunctionSearchOnly(key) == Stringify(Get(key, "search"))

cacheKeyFunction(key) == Stringify(key)

(***************************************************************************)
(* Outcomes of a search and of a load.                                     *)
(***************************************************************************)
Outcome(kind) == [kind |-> kind, total |-> 0, offset |-> JUndef, limit |-> JUndef, products |-> <<>>]

Pending == Outcome("pending")

Null == Outcome("null")

Undefined == Outcome("undefined")

Thrown == Outcome("throw")

DescriptionPrefix == <<"Description for product ">>

\* The product record built from a spreadsheet row (columns C..G).
ProductRecord(row) ==
    [sku |-> row[1],
     title |-> row[2],
     description |-> DescriptionPrefix \o row[2],
     price |-> [currency |-> "USD", amount |-> row[4]],
     image_url |-> row[5],
     categoryIds |-> <<1, 2>>]

\* currentPage + pageSize
Plus(a, b) == IF a.t = "num" /\ b.t = "num" THEN JNum(a.n + b.n) ELSE JNaN

\* currentPage * pageSize
Times(a, b) == IF a.t = "num" /\ b.t = "num" THEN JNum(a.n * b.n) ELSE JNaN

SearchResult(params, total, rows) ==
    [kind |-> "value",
     total |-> total,
     offset |-> Times(Get(params, "currentPage"), Get(params, "pageSize")),
     limit |-> Get(params, "pageSize"),
     products |-> [i \in 1..Len(rows) |-> ProductRecord(rows[i])]]

\* A string cell of the table equals the JavaScript value v under ===.
StrictEq(cell, v) == v.t = "str" /\ v.s = cell

\* A search that answers only the records of the page window.
SearchBranchPaged(params, values) ==
    LET search == Get(params, "search")
        needle == IF search.t = "num" THEN NumStr(search.n) ELSE search.s
        Test(row) == StrIncludes(row[2], needle)
        product == SelectSeq(values, Test)
        offset == Get(params, "currentPage").n * Get(params, "pageSize").n
        last == IF offset + Get(params, "pageSize").n < Len(product)
                THEN offset + Get(params, "pageSize").n
                ELSE Len(product)
    IN  [SearchResult(params, Len(product), SubSeq(product, offset + 1, last))
            EXCEPT !.total = Len(product)]

\* Lines 90-111: params.search is truthy; rows whose title includes it.
SearchBranch(params, values) ==
    LET search == Get(params, "search")
        needle == IF search.t = "num" THEN NumStr(search.n) ELSE search.s
        Test(row) == StrIncludes(row[2], needle)
        product == SelectSeq(values, Test)
    IN  SearchResult(params, Len(product), product)

\* An exact match that answers an empty result when no row is found.
EqBranchReturnsEmpty(params, values) ==
    LET filter == Get(params, "filter")
        key == IF Truthy(Get(filter, "sku"))
               THEN Get(Get(filter, "sku"), "eq")
               ELSE Get(Get(filter, "url_key"), "eq")
        Test(row) == StrictEq(row[1], key)
        product == SelectSeq(values, Test)
    IN  SearchResult(params, Len(product), product)

\* An exact match that answers the last row with the identifier.
EqBranchLastMatch(params, values) ==
    LET filter == Get(params, "filter")
        key == IF Truthy(Get(filter, "sku"))
               THEN Get(Get(filter, "sku"), "eq")
               ELSE Get(Get(filter, "url_key"), "eq")
        found == {i \in 1..Len(values) : StrictEq(values[i][1], key)}
        last == CHOOSE i \in found : \A j \in found : i >= j
    IN  IF found = {} THEN Thrown
        ELSE SearchResult(params, 1, <<values[last]>>)

\* Lines 121-146: the first row whose identifier is the eq value; reading a
\* cell of the undefined result of find throws.
EqBranch(params, values) ==
    LET filter == Get(params, "filter")
        key == IF Truthy(Get(filter, "sku"))
               THEN Get(Get(filter, "sku"), "eq")
               ELSE Get(Get(filter, "url_key"), "eq")
        found == {i \in 1..Len(values) : StrictEq(values[i][1], key)}
        first == CHOOSE i \in found : \A j \in found : i <= j
    IN  IF found = {} THEN Thrown
        ELSE SearchResult(params, 1, <<values[first]>>)

\* keys.includes(row[0]) for the value of an "in" property.
KeysInclude(keys, cell) ==
    CASE keys.t = "arr" -> \E i \in 1..Len(keys.f) : StrictEq(cell, keys.f[i].v)
      [] keys.t = "str" -> StrIncludes(keys.s, cell)
      [] OTHER -> FALSE

\* Lines 147-174: the condition reads params.filter.sku.in before
\* params.filter.url_key.in, each of which throws on a missing field.
InBranch(params, values) ==
    LET filter == Get(params, "filter")
        sku == Get(filter, "sku")
        url_key == Get(filter, "url_key")
        keys == IF Truthy(sku) THEN Get(sku, "in") ELSE Get(url_key, "in")
        Test(row) == KeysInclude(keys, row[1])
        product == SelectSeq(values, Test)
    IN  IF Nullish(sku) THEN Thrown
        ELSE IF Truthy(Get(sku, "in")) \/ (~Nullish(url_key) /\ Truthy(Get(url_key, "in")))
        THEN (IF keys.t \in {"arr", "str"} \/ values = <<>>
              THEN SearchResult(params, Len(product), product)
              ELSE Thrown)
        ELSE IF Nullish(url_key) THEN Thrown
        ELSE Undefined

\* A resolver that looks at the filter before the search term.
searchProductsFilterFirst(params, values) ==
    LET filter == Get(params, "filter")
        sku == Get(filter, "sku")
        url_key == Get(filter, "url_key")
    IN  IF Truthy(filter) /\ (Truthy(sku) \/ Truthy(url_key))
        THEN (IF (Truthy(sku) /\ Truthy(Get(sku, "eq")))
                  \/ (Truthy(url_key) /\ Truthy(Get(url_key, "eq")))
              THEN EqBranch(params, values)
              ELSE InBranch(params, values))
        ELSE IF Truthy(Get(params, "search")) THEN SearchBranch(params, values)
        ELSE Undefined

\* Lines 90-176 of __searchProducts: what the function returns (or throws)
\* once the spreadsheet values are there.
searchProducts(params, values) ==
    LET filter == Get(params, "filter")
        sku == Get(filter, "sku")
        url_key == Get(filter, "url_key")
    IN  IF Truthy(Get(params, "search")) THEN SearchBranch(params, values)
        ELSE IF Truthy(filter) /\ (Truthy(sku) \/ Truthy(url_key))
        THEN (IF (Truthy(sku) /\ Truthy(Get(sku, "eq")))
                  \/ (Truthy(url_key) /\ Truthy(Get(url_key, "eq")))
              THEN EqBranch(params, values)
              ELSE InBranch(params, values))
        ELSE Undefined

\* A catch handler that returns nothing.
CaughtReturnsNothing(outcome) == IF outcome.kind = "throw" THEN Undefined ELSE outcome

\* The .catch of the loading function (lines 39-50): a rejection becomes null.
Caught(outcome) == IF outcome.kind = "throw" THEN Null ELSE outcome

(***************************************************************************)
(* The inputs: spreadsheet tables and load keys.  Strings are sequences of *)
(* characters; a row is the five cells of columns C..G.                    *)
(***************************************************************************)
Row(sku, title, price, image) == <<sku, title, <<>>, <<price>>, <<image>>>>

S1 == <<"S", "1">>

S2 == <<"S", "2">>

Unknown == <<"U">>

\* The rows the spreadsheet holds; two of them share the identifier S1.
Table ==
    <<Row(S2, <<"S", "h", "o", "e">>, "49.99", "img2"),
      Row(S1, <<"S", "h", "i", "r", "t">>, "19.99", "img1"),
      Row(S1, <<"S", "o", "c", "k">>, "5.00", "img3")>>

Page(currentPage, pageSize) == <<P("currentPage", JNum(currentPage)), P("pageSize", JNum(pageSize))>>

Filter(field, op, val) == P("filter", JObj(<<P(field, JObj(<<P(op, val)>>))>>))

KSearch == JObj(<<P("search", JStr(<<"S", "h">>))>> \o Page(0, 10))

\* The fields of KSearch, written in another order.
KSearchReordered == JObj(Page(0, 10) \o <<P("search", JStr(<<"S", "h">>))>>)

KSkuEq == JObj(<<Filter("sku", "eq", JStr(S2))>> \o Page(1, 10))

KSkuEqUnknown == JObj(<<Filter("sku", "eq", JStr(Unknown))>> \o Page(0, 10))

KUrlKeyEqUnknown == JObj(<<Filter("url_key", "eq", JStr(Unknown))>> \o Page(0, 10))

KSkuIn == JObj(<<Filter("sku", "in", JArr(<<JStr(S2), JStr(S1)>>))>> \o Page(0, 5))

KUrlKeyIn == JObj(<<Filter("url_key", "in", JArr(<<JStr(S1)>>))>> \o Page(0, 5))

KMalformed == JObj(Page(0, 10))

\* The keys the callers of one run load: a run draws its keys from one of
\* these sets.
KeySets ==
    {{KSearch, KSkuEqUnknown, KUrlKeyEqUnknown},
     {KSearch, KSearchReordered, KMalformed}}

\* The rows of the scenario: every identifier occurs once.
TableScenario ==
    <<Row(S1, <<"S", "h", "i", "r", "t">>, "19.99", "img1"),
      Row(S2, <<"S", "h", "o", "e">>, "49.99", "img2")>>

Tables == {Table, TableScenario}

\* The keys of the runs that load a single key: every combination of a
\* search term, a filter on sku and url_key, and a page.  A property whose
\* value is undefined stands for a property the key does not have.
SearchTerms == {JUndef, JStr(<<>>), JStr(<<"S", "h">>), JStr(<<"o">>), JStr(<<"x">>)}

EqOrIns ==
    {JUndef,
     JObj(<<P("eq", JStr(S1))>>),
     JObj(<<P("eq", JStr(S2))>>),
     JObj(<<P("eq", JStr(Unknown))>>),
     JObj(<<P("in", JArr(<<JStr(S2), JStr(S1)>>))>>),
     JObj(<<P("in", JArr(<<JStr(Unknown)>>))>>),
     JObj(<<P("eq", JStr(S1)), P("in", JArr(<<JStr(S2)>>))>>)}

Filters == {JUndef} \cup {JObj(<<P("sku", a), P("url_key", b)>>) : a \in EqOrIns, b \in EqOrIns}

Pages == {Page(0, 10), Page(1, 2), Page(2, 1)}

SearchKeys ==
    {JObj(<<P("search", s), P("filter", f)>> \o pg) :
        s \in SearchTerms, f \in Filters, pg \in Pages}

\* Keys that differ in the order of their fields, in a field that is
\* undefined, in a value, or in the order of a list.
KSearchUndefinedFilter ==
    JObj(<<P("search", JStr(<<"S", "h">>)), P("filter", JUndef)>> \o Page(0, 10))

KSearchNextPage == JObj(<<P("search", JStr(<<"S", "h">>))>> \o Page(1, 10))

KSkuInReordered == JObj(<<Filter("sku", "in", JArr(<<JStr(S1), JStr(S2)>>))>> \o Page(0, 5))

KBothEq ==
    JObj(<<P("filter", JObj(<<P("sku", JObj(<<P("eq", JStr(S1))>>)),
                              P("url_key", JObj(<<P("eq", JStr(S2))>>))>>))>> \o Page(0, 10))

KBothEqReordered ==
    JObj(<<P("filter", JObj(<<P("url_key", JObj(<<P("eq", JStr(S2))>>)),
                              P("sku", JObj(<<P("eq", JStr(S1))>>))>>))>> \o Page(0, 10))

CanonKeys ==
    {KSearch, KSearchReordered, KSearchUndefinedFilter, KSearchNextPage,
     KSkuIn, KSkuInReordered, KBothEq, KBothEqReordered}

\* The keys of the runs in which the backend may leave a call unanswered.
LiveKeySets == {{KSearch, KSkuEqUnknown}, {KSkuIn, KMalformed}}

\* The action parameters the loader is constructed with (they are optional).
ActionParameterSets == {JObj(<<P("SPREADSHEET", JStr(<<"sheet">>))>>), JUndef}

\* The number of load calls of a run.
MaxLoads == 3

(***************************************************************************)
(* The loader.                                                             *)
(*   loadKeys       the keys the callers of this run ask for               *)
(*   cache          DataLoader's promise cache: cache key -> promise       *)
(*   queue          the promises of the batch not yet dispatched           *)
(*   promises       the promises load created, one per cache miss          *)
(*   tasks          the promises the loading function returned, one per    *)
(*                  key of a batch: a __searchProducts call and its catch  *)
(*   callers        the load calls made, with what each was settled with   *)
(*   resolverCalls  the calls of the loading function: keys and outcomes   *)
(***************************************************************************)
VARIABLES actionParameters, table, loadKeys, cache, queue, promises, tasks, callers, resolverCalls

vars == <<actionParameters, table, loadKeys, cache, queue, promises, tasks, callers, resolverCalls>>

Rejected == Outcome("rejected")

\* What a promise of load is settled with, if it is.
PromiseValue(p, ts) ==
    IF p.rejected THEN Rejected
    ELSE IF p.task = 0 THEN Pending
    ELSE ts[p.task].value

\* Only the first caller waiting on a promise sees its value.
SettleFirstCaller(cs, ps, ts) ==
    [c \in DOMAIN cs |->
        IF cs[c].result = Pending /\ \A d \in 1..(c - 1) : cs[d].pid # cs[c].pid
        THEN [cs[c] EXCEPT !.result = PromiseValue(ps[cs[c].pid], ts)]
        ELSE cs[c]]

\* Every caller still waiting sees its promise's value once there is one.
Settle(cs, ps, ts) ==
    [c \in DOMAIN cs |->
        IF cs[c].result = Pending
        THEN [cs[c] EXCEPT !.result = PromiseValue(ps[cs[c].pid], ts)]
        ELSE cs[c]]

Init ==
    /\ actionParameters \in ActionParameterSets
    /\ table = Table
    /\ loadKeys \in KeySets
    /\ cache = [ck \in {} |-> 0]
    /\ queue = <<>>
    /\ promises = <<>>
    /\ tasks = <<>>
    /\ callers = <<>>
    /\ resolverCalls = <<>>

\* A loader whose callers all load one key, of any shape, on any table.
InitSearch ==
    /\ actionParameters \in ActionParameterSets
    /\ table \in Tables
    /\ loadKeys \in {{key} : key \in SearchKeys}
    /\ cache = [ck \in {} |-> 0]
    /\ queue = <<>>
    /\ promises = <<>>
    /\ tasks = <<>>
    /\ callers = <<>>
    /\ resolverCalls = <<>>

\* A loader whose callers load two keys that may or may not be the same key.
InitCanon ==
    /\ actionParameters \in ActionParameterSets
    /\ table = Table
    /\ loadKeys \in {{k1, k2} : k1 \in CanonKeys, k2 \in CanonKeys}
    /\ cache = [ck \in {} |-> 0]
    /\ queue = <<>>
    /\ promises = <<>>
    /\ tasks = <<>>
    /\ callers = <<>>
    /\ resolverCalls = <<>>

\* A loader whose callers load two keys: one call may hang, the other not.
InitLive ==
    /\ actionParameters \in ActionParameterSets
    /\ table = Table
    /\ loadKeys \in LiveKeySets
    /\ cache = [ck \in {} |-> 0]
    /\ queue = <<>>
    /\ promises = <<>>
    /\ tasks = <<>>
    /\ callers = <<>>
    /\ resolverCalls = <<>>

\* DataLoader.load on a cache hit: the cached promise is returned.
LoadHit(key) ==
    LET pid == cache[cacheKeyFunction(key)]
        caller == [key |-> key, pid |-> pid, hit |-> TRUE,
                   window |-> Len(resolverCalls),
                   late |-> PromiseValue(promises[pid], tasks) # Pending,
                   result |-> PromiseValue(promises[pid], tasks)]
    IN  /\ callers' = Append(callers, caller)
        /\ UNCHANGED <<cache, queue, promises>>

\* DataLoader.load on a cache miss: a new promise, cached and queued.
LoadMiss(key) ==
    LET pid == Len(promises) + 1
        caller == [key |-> key, pid |-> pid, hit |-> FALSE,
                   window |-> Len(resolverCalls), late |-> FALSE, result |-> Pending]
    IN  /\ promises' = Append(promises, [key |-> key, ck |-> cacheKeyFunction(key),
                                         task |-> 0, rejected |-> FALSE])
        /\ cache' = cache @@ (cacheKeyFunction(key) :> pid)
        /\ queue' = Append(queue, pid)
        /\ callers' = Append(callers, caller)

\* Load without the cache lookup: every call queues its key.
LoadAlwaysMiss ==
    /\ Len(callers) < MaxLoads
    /\ \E key \in loadKeys : LoadMiss(key)
    /\ UNCHANGED <<actionParameters, table, loadKeys, tasks, resolverCalls>>

\* Load that drops a cache entry once its promise holds a search result.
LoadForgetsResolved ==
    /\ Len(callers) < MaxLoads
    /\ \E key \in loadKeys :
          IF /\ cacheKeyFunction(key) \in DOMAIN cache
             /\ PromiseValue(promises[cache[cacheKeyFunction(key)]], tasks).kind # "value"
          THEN LoadHit(key)
          ELSE LoadMiss(key)
    /\ UNCHANGED <<actionParameters, table, loadKeys, tasks, resolverCalls>>

\* Load that treats a cached null as a miss and tries again.
LoadRetriesFailed ==
    /\ Len(callers) < MaxLoads
    /\ \E key \in loadKeys :
          IF /\ cacheKeyFunction(key) \in DOMAIN cache
             /\ PromiseValue(promises[cache[cacheKeyFunction(key)]], tasks).kind # "null"
          THEN LoadHit(key)
          ELSE LoadMiss(key)
    /\ UNCHANGED <<actionParameters, table, loadKeys, tasks, resolverCalls>>

\* load(key), lines 60-62.
Load ==
    /\ Len(callers) < MaxLoads
    /\ \E key \in loadKeys :
          IF cacheKeyFunction(key) \in DOMAIN cache THEN LoadHit(key) ELSE LoadMiss(key)
    /\ UNCHANGED <<actionParameters, table, loadKeys, tasks, resolverCalls>>

\* A search that goes for the rows without acquiring a token.
StartSearchNoToken(params) ==
    IF Nullish(actionParameters)
    THEN [params |-> params, pc |-> "threw", value |-> Caught(Thrown)]
    ELSE [params |-> params, pc |-> "fetch", value |-> Pending]

\* Lines 79-83 of __searchProducts, up to its first await: reading
\* actionParameters.SPREADSHEET throws when there are no action parameters,
\* otherwise getAuthToken is called.
StartSearch(params) ==
    IF Nullish(actionParameters)
    THEN [params |-> params, pc |-> "threw", value |-> Caught(Thrown)]
    ELSE [params |-> params, pc |-> "token", value |-> Pending]

\* A loading function that returns its outcomes in the reverse order.
loadingFunctionReversed(keys) ==
    [i \in 1..Len(keys) |-> StartSearch(keys[Len(keys) + 1 - i])]

\* A loading function that searches for the first key only.
loadingFunctionFirstKeyOnly(keys) == <<StartSearch(keys[1])>>

\* The loading function, lines 32-53: one promise per key, in key order.
loadingFunction(keys) == [i \in 1..Len(keys) |-> StartSearch(keys[i])]

\* A batch of at most one key, as under the option maxBatchSize: 1.
BatchSizeOne == IF queue = <<>> THEN 0 ELSE 1

\* No maxBatchSize option is given (lines 55-57): a batch is the whole queue.
BatchSize == Len(queue)

\* The keys DataLoader hands to the batch function.
BatchKeys == [i \in 1..BatchSize |-> promises[queue[i]].key]

\* DataLoader's dispatch of the queued batch at the end of the tick: the
\* batch function is called once and promise i is resolved with outcome i;
\* an outcome list of another length rejects every key and clears it.
Dispatch ==
    /\ queue # <<>>
    /\ LET keys == BatchKeys
           outs == loadingFunction(keys)
           base == Len(tasks)
           b == Len(resolverCalls) + 1
           ok == Len(outs) = Len(keys)
           Pos(pid) == CHOOSE i \in 1..BatchSize : queue[i] = pid
           InBatch(pid) == \E i \in 1..BatchSize : queue[i] = pid
           ps == [pid \in DOMAIN promises |->
                    IF ~InBatch(pid) THEN promises[pid]
                    ELSE IF ok THEN [promises[pid] EXCEPT !.task = base + Pos(pid)]
                    ELSE [promises[pid] EXCEPT !.rejected = TRUE]]
           ts == tasks \o [i \in 1..Len(outs) |->
                             [params |-> outs[i].params, pc |-> outs[i].pc,
                              value |-> outs[i].value, batch |-> b]]
       IN  /\ tasks' = ts
           /\ promises' = ps
           /\ cache' = IF ok THEN cache
                       ELSE [ck \in {c \in DOMAIN cache : ~InBatch(cache[c])} |-> cache[ck]]
           /\ resolverCalls' = Append(resolverCalls,
                  [keys |-> keys,
                   outcomes |-> [i \in 1..Len(outs) |-> base + i],
                   tokenCalls |-> Cardinality({i \in 1..Len(outs) : outs[i].pc = "token"}),
                   fetchCalls |-> 0])
           /\ callers' = Settle(callers, ps, ts)
    /\ queue' = SubSeq(queue, BatchSize + 1, Len(queue))
    /\ UNCHANGED <<actionParameters, table, loadKeys>>

\* A task is over when it awaits neither the token nor the rows.
Done(task) == task.pc \notin {"token", "fetch"}

\* A failure of one task settles every waiting caller of its batch with null,
\* as a loading function that awaited all of its searches together would.
FinishFailsBatch(t, how, outcome) ==
    /\ tasks' = [tasks EXCEPT ![t].pc = how, ![t].value = outcome]
    /\ callers' = [c \in DOMAIN callers |->
                     IF /\ callers[c].result = Pending
                        /\ outcome = Null
                        /\ promises[callers[c].pid].task # 0
                        /\ tasks[promises[callers[c].pid].task].batch = tasks[t].batch
                     THEN [callers[c] EXCEPT !.result = Null]
                     ELSE Settle(callers, promises, tasks')[c]]

\* The callers of a batch are settled only once every search of the batch
\* has come to its end, as under a loading function that awaits them all.
FinishWhenBatchDone(t, how, outcome) ==
    /\ tasks' = [tasks EXCEPT ![t].pc = how, ![t].value = outcome]
    /\ callers' = IF \A u \in DOMAIN tasks : tasks[u].batch = tasks[t].batch => Done(tasks'[u])
                  THEN Settle(callers, promises, tasks')
                  ELSE callers

\* A task finishes: its promise is settled, and with it its callers.
Finish(t, how, outcome) ==
    /\ tasks' = [tasks EXCEPT ![t].pc = how, ![t].value = outcome]
    /\ callers' = Settle(callers, promises, tasks')

\* getAuthToken resolves (line 83): getSpreadSheetValues is called (line 84).
TokenOk ==
    /\ \E t \in DOMAIN tasks :
          /\ tasks[t].pc = "token"
          /\ tasks' = [tasks EXCEPT ![t].pc = "fetch"]
          /\ resolverCalls' = [resolverCalls EXCEPT ![tasks[t].batch].fetchCalls = @ + 1]
    /\ UNCHANGED <<actionParameters, table, loadKeys, cache, queue, promises, callers>>

\* getAuthToken rejects: the catch turns the rejection into null.
TokenFail ==
    /\ \E t \in DOMAIN tasks :
          /\ tasks[t].pc = "token"
          /\ Finish(t, "tokenFailed", Caught(Thrown))
    /\ UNCHANGED <<actionParameters, table, loadKeys, cache, queue, promises, resolverCalls>>

\* getSpreadSheetValues resolves: lines 90-176 run on the rows.
FetchOk ==
    /\ \E t \in DOMAIN tasks :
          /\ tasks[t].pc = "fetch"
          /\ Finish(t, "fetched", Caught(searchProducts(tasks[t].params, table)))
    /\ UNCHANGED <<actionParameters, table, loadKeys, cache, queue, promises, resolverCalls>>

\* getSpreadSheetValues rejects.
FetchFail ==
    /\ \E t \in DOMAIN tasks :
          /\ tasks[t].pc = "fetch"
          /\ Finish(t, "fetchFailed", Caught(Thrown))
    /\ UNCHANGED <<actionParameters, table, loadKeys, cache, queue, promises, resolverCalls>>

Next == Load \/ Dispatch \/ TokenOk \/ TokenFail \/ FetchOk \/ FetchFail

Spec == Init /\ [][Next]_vars

\* The backend answers a call made for a key: its token acquisition or its
\* table fetch returns or fails.
Answers(key) ==
    /\ TokenOk \/ TokenFail \/ FetchOk \/ FetchFail
    /\ \E t \in DOMAIN tasks : tasks[t].params = key /\ tasks'[t] # tasks[t]

\* DataLoader flushes a queued batch at the end of the tick.  Whether the
\* backend ever answers is left open.
SpecLive == InitLive /\ [][Next]_vars /\ WF_vars(Dispatch)

SpecSearch == InitSearch /\ [][Next]_vars

SpecCanon == InitCanon /\ [][Next]_vars

(***************************************************************************)
(* Properties.                                                             *)
(***************************************************************************)
Callers == DOMAIN callers

Batches == DOMAIN resolverCalls

\* The task a caller's promise was resolved with (0 before the dispatch).
TaskOf(c) == promises[callers[c].pid].task

\* The keys waiting for the next flush.
QueuedKeys == [i \in 1..Len(queue) |-> promises[queue[i]].key]

\* How often a cache key occurs among the keys of a batch.
Occurrences(keys, ck) == Cardinality({i \in 1..Len(keys) : cacheKeyFunction(keys[i]) = ck})

\* The searches ever started for a cache key.
SearchesFor(ck) == {t \in DOMAIN tasks : cacheKeyFunction(tasks[t].params) = ck}

\* The loads of a window (the calls between two flushes) with one cache key.
SameTick(c, d) ==
    /\ callers[c].window = callers[d].window
    /\ cacheKeyFunction(callers[c].key) = cacheKeyFunction(callers[d].key)

\* C1: however many load calls of one tick carry the same cache key, the
\* batch handed to the loading function holds that key exactly once (also
\* while the batch is still queued), and one search is started for it.
C1_Deduplication ==
    \A c \in Callers :
        LET ck == cacheKeyFunction(callers[c].key)
        IN  IF TaskOf(c) = 0
            THEN Occurrences(QueuedKeys, ck) = 1
            ELSE /\ Occurrences(resolverCalls[tasks[TaskOf(c)].batch].keys, ck) = 1
                 /\ \A d \in Callers : SameTick(c, d) => TaskOf(d) = TaskOf(c)
                 /\ Cardinality({t \in SearchesFor(ck) : tasks[t].batch = tasks[TaskOf(c)].batch}) = 1

\* Three loads of one key in one tick, dispatched as a batch of one key.
C1_Witness ==
    \E c \in Callers : \E d \in Callers : \E e \in Callers :
        /\ c < d /\ d < e
        /\ SameTick(c, d) /\ SameTick(d, e)
        /\ TaskOf(c) # 0
        /\ Len(resolverCalls[tasks[TaskOf(c)].batch].keys) = 1

\* C2: once a key is resolved with a search result, every later load of it
\* is a cache hit that returns that same result at once, and no second
\* search (hence no backend call) is ever started for the key.
C2_CacheStability ==
    \A c \in Callers :
        LET ck == cacheKeyFunction(callers[c].key)
        IN  (TaskOf(c) # 0 /\ tasks[TaskOf(c)].value.kind = "value") =>
               /\ Cardinality(SearchesFor(ck)) = 1
               /\ Occurrences(QueuedKeys, ck) = 0
               /\ \A b \in Batches :
                     Occurrences(resolverCalls[b].keys, ck)
                        = (IF b = tasks[TaskOf(c)].batch THEN 1 ELSE 0)
               /\ callers[c].result = tasks[TaskOf(c)].value
               /\ callers[c].late => callers[c].hit

\* A load of a resolved key, made in a later tick after a load of another key.
C2_Witness ==
    \E c \in Callers : \E d \in Callers :
        /\ d < c
        /\ callers[c].late /\ callers[c].result.kind = "value"
        /\ callers[c].window > tasks[TaskOf(c)].batch
        /\ cacheKeyFunction(callers[d].key) # cacheKeyFunction(callers[c].key)
        /\ callers[d].window >= tasks[TaskOf(c)].batch

\* The fetch of a task came back and its search does not throw.
Succeeds(t) == tasks[t].pc = "fetched" /\ searchProducts(tasks[t].params, table).kind = "value"

\* The task ended in the catch: a backend failure or a throwing search.
Fails(t) ==
    \/ tasks[t].pc \in {"threw", "tokenFailed", "fetchFailed"}
    \/ tasks[t].pc = "fetched" /\ searchProducts(tasks[t].params, table).kind = "throw"

\* C3: when a key of a batch fails and the backend answers for another key
\* of the same batch, the callers of the other key get its search result.
C3_FailureIsolation ==
    \A c \in Callers : \A u \in DOMAIN tasks :
        LET t == TaskOf(c)
        IN  (t # 0 /\ u # t /\ tasks[u].batch = tasks[t].batch /\ Fails(u)) =>
               /\ tasks[t].pc = "fetched"
                    => callers[c].result = Caught(searchProducts(callers[c].key, table))
               /\ ~Done(tasks[t]) => callers[c].result = Pending

\* A batch of two keys: one failed, the other's caller got a search result.
C3_Witness ==
    \E c \in Callers : \E u \in DOMAIN tasks :
        /\ TaskOf(c) # 0 /\ u # TaskOf(c)
        /\ tasks[u].batch = tasks[TaskOf(c)].batch
        /\ Fails(u) /\ Succeeds(TaskOf(c))
        /\ callers[c].result.kind = "value"

\* The key has a search term, or a filter on sku or url_key with eq or in.
RecognizedShape(key) ==
    \/ Truthy(Get(key, "search"))
    \/ \E field \in {"sku", "url_key"} : \E op \in {"eq", "in"} :
          Truthy(Get(Get(Get(key, "filter"), field), op))

\* C4: load never rejects, and every failure (of the token, of the fetch,
\* no matching row, a key of no recognized shape) is fulfilled with null.
C4_NeverRejectsNullOnFailure ==
    \A c \in Callers :
        /\ callers[c].result.kind # "rejected"
        /\ (TaskOf(c) # 0 /\ Done(tasks[TaskOf(c)])
              /\ (Fails(TaskOf(c)) \/ ~RecognizedShape(callers[c].key)))
           => callers[c].result = Null

\* C5: a failed key is cached as null: its waiting callers get null, every
\* later load of it is a hit that returns null, and no second search is
\* started for it, whatever the backend would answer now.
C5_FailuresCachedAsNull ==
    \A c \in Callers :
        LET ck == cacheKeyFunction(callers[c].key)
        IN  (TaskOf(c) # 0 /\ Fails(TaskOf(c))) =>
               /\ callers[c].result = Null
               /\ ck \in DOMAIN cache
               /\ PromiseValue(promises[cache[ck]], tasks) = Null
               /\ Cardinality(SearchesFor(ck)) = 1
               /\ Occurrences(QueuedKeys, ck) = 0
               /\ callers[c].late => callers[c].hit

\* A key whose token acquisition failed is loaded again in a later tick, on
\* a loader whose backend is reachable, and the load returns null.
C5_Witness ==
    \E c \in Callers :
        /\ callers[c].late /\ callers[c].result = Null
        /\ tasks[TaskOf(c)].pc = "tokenFailed"
        /\ callers[c].window > tasks[TaskOf(c)].batch
        /\ \E u \in DOMAIN tasks : Succeeds(u)

\* The searches a call of the loading function started.
TasksOfBatch(b) == {t \in DOMAIN tasks : tasks[t].batch = b}

\* C6 as stated: a call of the loading function acquires the token once and
\* fetches the table once, however many keys the batch has.
C6_OneFetchPerInvocation ==
    \A b \in Batches :
        ~Nullish(actionParameters) =>
            /\ resolverCalls[b].tokenCalls = 1
            /\ resolverCalls[b].fetchCalls <= 1

\* C6 as amended: a call of the loading function acquires the token once for
\* each key of the batch, and fetches the table once for each key whose
\* token has arrived; without action parameters it acquires none.
C6_OneFetchPerKey ==
    \A b \in Batches :
        /\ resolverCalls[b].tokenCalls
             = (IF Nullish(actionParameters) THEN 0 ELSE Len(resolverCalls[b].keys))
        /\ resolverCalls[b].fetchCalls
             = Cardinality({t \in TasksOfBatch(b) :
                               tasks[t].pc \in {"fetch", "fetched", "fetchFailed"}})
        /\ resolverCalls[b].fetchCalls <= Len(resolverCalls[b].keys)

\* A batch of two keys for which the table was fetched twice.
C6_Witness ==
    \E b \in Batches :
        /\ Len(resolverCalls[b].keys) = 2
        /\ resolverCalls[b].tokenCalls = 2
        /\ resolverCalls[b].fetchCalls = 2

\* The keys of the cache misses of a window, in call order.
MissesOfWindow(w) ==
    LET Test(c) == ~c.hit /\ c.window = w
        misses == SelectSeq(callers, Test)
    IN  [i \in 1..Len(misses) |-> misses[i].key]

\* C7: the keys handed to the loading function in flush b are exactly the
\* uncached keys loaded since flush b-1, in call order; the keys loaded since
\* the last flush are the queue of the next batch.
C7_BatchBoundary ==
    /\ \A b \in Batches : resolverCalls[b].keys = MissesOfWindow(b - 1)
    /\ QueuedKeys = MissesOfWindow(Len(resolverCalls))

\* Two keys flushed together, and a key loaded afterwards in a second batch.
C7_Witness ==
    /\ Len(resolverCalls) = 2
    /\ Len(resolverCalls[1].keys) = 2
    /\ Len(resolverCalls[2].keys) = 1
    /\ \E c \in Callers : callers[c].window = 1 /\ ~callers[c].hit

\* The batches with a search awaiting the backend.
BatchesInFlight == {tasks[t].batch : t \in {u \in DOMAIN tasks : ~Done(tasks[u])}}

\* C8 as stated: at most one batch has backend work in flight.
C8_BatchesDoNotOverlap == Cardinality(BatchesInFlight) <= 1

\* C8 as amended: the calls of the loading function follow one another, each
\* having started the search of every key of its batch before the next call
\* starts; the searches themselves go on after the call has returned.
C8_ResolverCallsSequential ==
    /\ \A b \in Batches :
          /\ Cardinality(TasksOfBatch(b)) = Len(resolverCalls[b].keys)
          /\ \A t \in TasksOfBatch(b) : \A u \in DOMAIN tasks :
                tasks[u].batch > b => u > t
    /\ BatchesInFlight \subseteq Batches
    /\ \A p \in DOMAIN promises :
          (\E i \in 1..Len(queue) : queue[i] = p) => promises[p].task = 0

\* Searches of two batches are in flight at the same time.
C8_Witness ==
    /\ Cardinality(BatchesInFlight) = 2
    /\ \E b \in Batches : Len(resolverCalls[b].keys) = 2

\* C9: the loading function returns as many outcomes as it got keys, the
\* outcome at index i is the search for the key at index i, and each caller
\* is settled by the search for its own key.
C9_PositionalCorrespondence ==
    /\ \A b \in Batches :
          /\ Len(resolverCalls[b].outcomes) = Len(resolverCalls[b].keys)
          /\ \A i \in 1..Len(resolverCalls[b].keys) :
                tasks[resolverCalls[b].outcomes[i]].params = resolverCalls[b].keys[i]
    /\ \A c \in Callers :
          /\ callers[c].result.kind # "rejected"
          /\ TaskOf(c) # 0 =>
                /\ cacheKeyFunction(tasks[TaskOf(c)].params) = cacheKeyFunction(callers[c].key)
                /\ callers[c].result = tasks[TaskOf(c)].value

\* A batch of two keys whose callers were settled with different outcomes.
C9_Witness ==
    \E c \in Callers : \E d \in Callers :
        /\ TaskOf(c) # 0 /\ TaskOf(d) # 0
        /\ tasks[TaskOf(c)].batch = tasks[TaskOf(d)].batch
        /\ tasks[TaskOf(c)].pc = "fetched" /\ tasks[TaskOf(d)].pc = "fetched"
        /\ callers[c].result.kind = "value"
        /\ callers[d].result.kind = "undefined"

\* The eq values of an exact-match key: it has no search term.
EqValues(key) ==
    IF Truthy(Get(key, "search")) THEN {}
    ELSE {Get(Get(Get(key, "filter"), field), "eq") : field \in {"sku", "url_key"}}
            \ {JUndef}

\* No row of the table has the identifier v.
MatchesNoRow(v) == \A i \in 1..Len(table) : table[i][1] # v.s

\* C10: the load of an exact-match key whose value is no row's identifier
\* is fulfilled with null: not rejected, not undefined, not a search result.
C10_KeyNotFoundIsNull ==
    \A c \in Callers :
        (EqValues(callers[c].key) # {} /\ \A v \in EqValues(callers[c].key) : MatchesNoRow(v))
           => callers[c].result \in {Pending, Null}

\* Both kinds of exact-match key were searched in the fetched table and
\* their callers got null.
C10_Witness ==
    \E c \in Callers : \E d \in Callers :
        /\ callers[c].key = KSkuEqUnknown /\ callers[d].key = KUrlKeyEqUnknown
        /\ TaskOf(c) # 0 /\ tasks[TaskOf(c)].pc = "fetched"
        /\ TaskOf(d) # 0 /\ tasks[TaskOf(d)].pc = "fetched"
        /\ callers[c].result = Null /\ callers[d].result = Null

\* The callers whose search ran on the fetched rows.
Fetched(c) == TaskOf(c) # 0 /\ tasks[TaskOf(c)].pc = "fetched"

\* C11: the load of a key with neither a search term nor a recognized filter
\* shape is fulfilled with null, never with undefined.
C11_MalformedKeyIsNull ==
    \A c \in Callers :
        ~RecognizedShape(callers[c].key) => callers[c].result \in {Pending, Null}

\* The filter of a key, and whether the key is a plain membership key on a
\* field: no search term, no eq value, and an in list on that field.
FilterOf(key) == Get(key, "filter")

NoSearch(key) == ~Truthy(Get(key, "search"))

NoEq(key) ==
    /\ ~Truthy(Get(Get(FilterOf(key), "sku"), "eq"))
    /\ ~Truthy(Get(Get(FilterOf(key), "url_key"), "eq"))

\* The list the claim is about: filter.sku.in, or filter.url_key.in of a key
\* that has no filter.sku.
InList(key) ==
    IF Truthy(Get(FilterOf(key), "sku"))
    THEN Get(Get(FilterOf(key), "sku"), "in")
    ELSE Get(Get(FilterOf(key), "url_key"), "in")

MembershipKey(key) == NoSearch(key) /\ NoEq(key) /\ InList(key).t = "arr"

\* The rows whose identifier is an item of the list, in table order.
RowsIn(list) ==
    LET Member(row) == \E i \in 1..Len(list.f) : list.f[i].v = JStr(row[1])
    IN  SelectSeq(table, Member)

\* C12: a key with filter.sku.in, or with filter.url_key.in and no
\* filter.sku, yields every row whose identifier is in the list, in table
\* order, and their number as total.
C12_MembershipInTableOrder ==
    \A c \in Callers :
        (MembershipKey(callers[c].key) /\ Fetched(c)) =>
            LET rows == RowsIn(InList(callers[c].key))
            IN  /\ callers[c].result.kind = "value"
                /\ callers[c].result.total = Len(rows)
                /\ callers[c].result.products = [i \in 1..Len(rows) |-> ProductRecord(rows[i])]

\* The properties of an object that have a value.
DefinedProps(v) ==
    LET HasValue(p) == p.v.t # "undef"
    IN  SelectSeq(v.f, HasValue)

\* Two values have the same fields with the same values, whatever the order
\* in which an object lists its fields.
RECURSIVE FieldwiseEqual(_, _)
FieldwiseEqual(a, b) ==
    /\ a.t = b.t /\ a.s = b.s /\ a.n = b.n
    /\ IF a.t = "obj"
       THEN /\ {p.k : p \in {DefinedProps(a)[i] : i \in 1..Len(DefinedProps(a))}}
                 = {p.k : p \in {DefinedProps(b)[i] : i \in 1..Len(DefinedProps(b))}}
            /\ \A i \in 1..Len(DefinedProps(a)) :
                  FieldwiseEqual(DefinedProps(a)[i].v, Get(b, DefinedProps(a)[i].k))
       ELSE /\ Len(a.f) = Len(b.f)
            /\ \A i \in 1..Len(a.f) : FieldwiseEqual(a.f[i].v, b.f[i].v)

\* Two values have the same fields with the same values in the same order.
RECURSIVE SameFieldsSameOrder(_, _)
SameFieldsSameOrder(a, b) ==
    LET fa == IF a.t = "obj" THEN DefinedProps(a) ELSE a.f
        fb == IF b.t = "obj" THEN DefinedProps(b) ELSE b.f
    IN  /\ a.t = b.t /\ a.s = b.s /\ a.n = b.n
        /\ Len(fa) = Len(fb)
        /\ \A i \in 1..Len(fa) :
              fa[i].k = fb[i].k /\ SameFieldsSameOrder(fa[i].v, fb[i].v)

\* Two callers share a cache key, and with it one cache entry.
SameEntry(c, d) ==
    /\ cacheKeyFunction(callers[c].key) = cacheKeyFunction(callers[d].key)
    /\ callers[c].pid = callers[d].pid

DifferentEntries(c, d) ==
    /\ cacheKeyFunction(callers[c].key) # cacheKeyFunction(callers[d].key)
    /\ callers[c].pid # callers[d].pid

\* C13 as stated: two keys have the same cache key, and one cache entry, if
\* and only if they are field-wise equal, whatever the order of their fields.
C13_FieldOrderIrrelevant ==
    \A c \in Callers : \A d \in Callers :
        IF FieldwiseEqual(callers[c].key, callers[d].key)
        THEN SameEntry(c, d)
        ELSE DifferentEntries(c, d)

\* C13 as amended: two keys have the same cache key, and one cache entry, if
\* and only if they have the same defined fields with the same values in the
\* same order; the same fields in another order make another cache entry.
C13_CacheKeyKeepsFieldOrder ==
    \A c \in Callers : \A d \in Callers :
        IF SameFieldsSameOrder(callers[c].key, callers[d].key)
        THEN SameEntry(c, d)
        ELSE DifferentEntries(c, d)

\* Two field-wise equal keys in different field orders, loaded in one tick,
\* were searched separately.
C13_Witness ==
    \E c \in Callers : \E d \in Callers :
        /\ FieldwiseEqual(callers[c].key, callers[d].key)
        /\ ~SameFieldsSameOrder(callers[c].key, callers[d].key)
        /\ callers[c].window = callers[d].window
        /\ TaskOf(c) # 0 /\ TaskOf(d) # 0 /\ TaskOf(c) # TaskOf(d)

\* The token acquisition or the table fetch of a task failed.
BackendFailed(t) == tasks[t].pc \in {"tokenFailed", "fetchFailed"}

\* C14 as stated: when the token acquisition or the table fetch fails during
\* a batch, no key of that batch resolves to a search result.
C14_FailureFailsWholeBatch ==
    \A t \in DOMAIN tasks : \A u \in DOMAIN tasks :
        (BackendFailed(t) /\ tasks[u].batch = tasks[t].batch) =>
            tasks[u].value.kind # "value"

\* C14 as amended: the token acquisition and the table fetch are made per
\* key; when one of them fails, the key it was made for, and every caller of
\* that key, gets null, and the other keys of the batch get the outcome of
\* their own search.
C14_FailureFailsItsKey ==
    \A c \in Callers :
        LET t == TaskOf(c)
        IN  (t # 0 /\ BackendFailed(t)) =>
               /\ tasks[t].value = Null
               /\ callers[c].result = Null
               /\ \A u \in DOMAIN tasks :
                     (tasks[u].batch = tasks[t].batch /\ tasks[u].pc = "fetched") =>
                         tasks[u].value = Caught(searchProducts(tasks[u].params, table))

\* A token failure and a fetch failure in one batch, beside a key of that
\* batch whose caller got a search result.
C14_Witness ==
    \E c \in Callers : \E d \in Callers : \E e \in Callers :
        /\ TaskOf(c) # 0 /\ TaskOf(d) # 0 /\ TaskOf(e) # 0
        /\ tasks[TaskOf(c)].pc = "tokenFailed" /\ callers[c].result = Null
        /\ tasks[TaskOf(d)].pc = "fetchFailed" /\ callers[d].result = Null
        /\ tasks[TaskOf(e)].batch = tasks[TaskOf(c)].batch
        /\ tasks[TaskOf(d)].batch = tasks[TaskOf(c)].batch
        /\ callers[e].result.kind = "value"

\* A caller holds what the cache entry of its key holds: it waits as long as
\* the entry is unsettled, and callers of one cache key hold one outcome.
SettledWithCachedOutcome ==
    \A c \in Callers :
        /\ cacheKeyFunction(callers[c].key) \in DOMAIN cache
        /\ cache[cacheKeyFunction(callers[c].key)] = callers[c].pid
        /\ callers[c].result = PromiseValue(promises[callers[c].pid], tasks)
        /\ callers[c].result # Pending => TaskOf(c) # 0 /\ Done(tasks[TaskOf(c)])
        /\ \A d \in Callers :
              cacheKeyFunction(callers[d].key) = cacheKeyFunction(callers[c].key) =>
                  callers[d].result = callers[c].result

\* A settled caller keeps its outcome, and a waiting caller is settled in the
\* step in which the search of its key comes to its end.
SettledOnce ==
    \A c \in Callers :
        /\ callers[c].result # Pending => callers'[c].result = callers[c].result
        /\ (callers[c].result = Pending /\ callers'[c].result # Pending) =>
               /\ TaskOf(c) = 0 \/ ~Done(tasks[TaskOf(c)])
               /\ promises'[callers[c].pid].task # 0
               /\ Done(tasks'[promises'[callers[c].pid].task])

ExactMatchKey(key, field) ==
    /\ NoSearch(key)
    /\ Get(Get(FilterOf(key), field), "eq").t = "str"
    /\ \A other \in {"sku", "url_key"} \ {field} : Nullish(Get(FilterOf(key), other))

\* The rows (by position) whose identifier is the value v.
RowsWith(v) == {i \in 1..Len(table) : JStr(table[i][1]) = v}

\* The page window of a key: currentPage * pageSize and pageSize.
OffsetOf(key) == JNum(Get(key, "currentPage").n * Get(key, "pageSize").n)

LimitOf(key) == JNum(Get(key, "pageSize").n)

RowsTitled(term) ==
    LET Contains(row) ==
            \E i \in 1..(Len(row[2]) + 1) :
                /\ i + Len(term) - 1 <= Len(row[2])
                /\ SubSeq(row[2], i, i + Len(term) - 1) = term
    IN  SelectSeq(table, Contains)

\* A key with a search term.
SearchKey(key) == Get(key, "search").t = "str" /\ Get(key, "search").s # <<>>

\* C17: a key with a search term yields exactly the rows whose title
\* contains the term, in table order, with their number as total, offset
\* currentPage * pageSize and limit pageSize; the records are never cut down
\* to the page window.
C17_SearchIsNotPaged ==
    \A c \in Callers :
        LET key == callers[c].key
            rows == RowsTitled(Get(key, "search").s)
        IN  (SearchKey(key) /\ Fetched(c)) =>
               /\ callers[c].result.kind = "value"
               /\ callers[c].result.products = [i \in 1..Len(rows) |-> ProductRecord(rows[i])]
               /\ callers[c].result.total = Len(rows)
               /\ callers[c].result.offset = OffsetOf(key)
               /\ callers[c].result.limit = LimitOf(key)

\* A search on a later page whose result holds more records than a page and
\* leaves out a row of the table.
C17_Witness ==
    \E c \in Callers :
        /\ SearchKey(callers[c].key)
        /\ callers[c].result.kind = "value"
        /\ Get(callers[c].key, "currentPage").n > 0
        /\ Len(callers[c].result.products) > Get(callers[c].key, "pageSize").n
        /\ Len(callers[c].result.products) < Len(table)

\* The i-th load was made, for the key; the i-th load is settled.
Loaded(i, key) == IF i \in Callers THEN callers[i].key = key ELSE FALSE

Settled(i) == IF i \in Callers THEN callers[i].result # Pending ELSE FALSE

\* C18: every load of a key is eventually settled provided the backend calls
\* made for that key are eventually answered, whether or not the calls made
\* for the other keys of its batch ever are.
C18_SettledWhenOwnCallsAnswered ==
    \A key \in UNION LiveKeySets :
        WF_vars(Answers(key)) =>
            \A i \in 1..MaxLoads :
                Loaded(i, key) ~> Settled(i)

\* A caller is settled while the search of another key of its batch still
\* waits for the backend.
C18_Witness ==
    \E c \in Callers : \E u \in DOMAIN tasks :
        /\ TaskOf(c) # 0
        /\ tasks[u].batch = tasks[TaskOf(c)].batch
        /\ tasks[TaskOf(c)].pc \in {"fetched", "tokenFailed", "fetchFailed"}
        /\ callers[c].result # Pending
        /\ ~Done(tasks[u])

\* A search result is consistent with its key: total counts its records, and
\* offset and limit are the page window of the key.
Consistent(result, key) ==
    result.kind = "value" =>
        /\ result.total = Len(result.products)
        /\ result.offset = OffsetOf(key)
        /\ result.limit = LimitOf(key)

\* C19: every search result returned by load or held by a cache entry has
\* total = number of records in products, offset = currentPage * pageSize and
\* limit = pageSize of its key, whatever the shape of the key.
C19_ResultConsistentWithKey ==
    /\ \A c \in Callers : Consistent(callers[c].result, callers[c].key)
    /\ \A ck \in DOMAIN cache :
          Consistent(PromiseValue(promises[cache[ck]], tasks), promises[cache[ck]].key)

\* The result of a membership key, with several records, on a later page.
C19_Witness ==
    \E c \in Callers :
        /\ MembershipKey(callers[c].key)
        /\ callers[c].result.kind = "value"
        /\ callers[c].result.total > 1
        /\ callers[c].result.offset.n > 0

\* A key whose search term is absent or the empty string.
NoTerm(key) == Get(key, "search") \in {JUndef, JStr(<<>>)}

\* A field of the filter of a key, and whether the key has it.
Field(key, field) == Get(FilterOf(key), field)

Has(key, field) == Field(key, field) # JUndef

\* Some field of the filter carries an eq value.
AnyEq(key) == \E field \in {"sku", "url_key"} : Get(Field(key, field), "eq") # JUndef

\* The field that is looked up: sku when the filter has it, else url_key.
LookedUp(key) == IF Has(key, "sku") THEN Field(key, "sku") ELSE Field(key, "url_key")

\* The outcome of an exact match on the value v: the one record of the first
\* row with that identifier, or null when there is none.
IsExactMatchOf(result, v) ==
    IF RowsWith(v) = {} THEN result = Null
    ELSE /\ result.kind = "value"
         /\ \E i \in RowsWith(v) :
               /\ \A j \in RowsWith(v) : i <= j
               /\ result.products = <<ProductRecord(table[i])>>

\* The outcome of a free-text search for a term, or of a membership in a list.
HasRecordsOf(result, rows) ==
    /\ result.kind = "value"
    /\ result.products = [i \in 1..Len(rows) |-> ProductRecord(rows[i])]

\* C20: a key with a non-empty search term is resolved as a free-text search
\* whatever its filter; an empty search string is treated as absent; when
\* the filter has both sku and url_key the sku value is the one looked up;
\* and an eq value on either field takes precedence over any in list.
C20_BranchPrecedence ==
    \A c \in Callers :
        LET key == callers[c].key
            result == callers[c].result
        IN  Fetched(c) =>
               /\ SearchKey(key) => HasRecordsOf(result, RowsTitled(Get(key, "search").s))
               /\ (NoTerm(key) /\ AnyEq(key)) =>
                      IsExactMatchOf(result, Get(LookedUp(key), "eq"))
               /\ (NoTerm(key) /\ ~AnyEq(key) /\ Has(key, "sku") /\ Has(key, "url_key")) =>
                      HasRecordsOf(result, RowsIn(Get(Field(key, "sku"), "in")))

\* An empty search string with a filter that has an eq value on sku and
\* another eq value and an in list on url_key: the row of the sku value.
C20_Witness ==
    \E c \in Callers :
        LET key == callers[c].key
        IN  /\ Get(key, "search") = JStr(<<>>)
            /\ Get(Field(key, "sku"), "eq").t = "str"
            /\ Get(Field(key, "url_key"), "eq").t = "str"
            /\ Get(Field(key, "url_key"), "eq") # Get(Field(key, "sku"), "eq")
            /\ Get(Field(key, "url_key"), "in").t = "arr"
            /\ callers[c].result.kind = "value"
            /\ JStr(callers[c].result.products[1].sku) = Get(Field(key, "sku"), "eq")

====
